---- MODULE Spec2Model ----
(***************************************************************************)
(* State-machine model of the hooks of the timer dashboard:                *)
(*   useTimer  (src/src/hooks/useTimer.ts)                                  *)
(*   useAsync  (src/src/hooks/useAsync.ts and the variant kept in           *)
(*              src/unnamed/part_002)                                       *)
(*   useInterval      (src/unnamed/part_001)                               *)
(*   useLocalStorage  (src/src/hooks/useLocalStorage.ts)                   *)
(*   TimerCard        (src/src/components/TimerCard.tsx)                   *)
(*                                                                         *)
(* React semantics used by the model.                                      *)
(*  - A handler (start, pause, reset), an interval callback and a promise  *)
(*    continuation each run to completion; they read refs, never the       *)
(*    state of a render that has not happened yet.                         *)
(*  - setTimer(updater) does not change the rendered state: React queues   *)
(*    the updater and applies the queue, in order, to the rendered state   *)
(*    at the next render.  The rendered state does not change between two  *)
(*    renders, so the queue is kept folded: `pending` is the rendered      *)
(*    state with every queued updater applied, and the render commits it.  *)
(*  - An effect runs after a commit when one of its dependencies changed.  *)
(*  - setState on an unmounted component does nothing.                     *)
(***************************************************************************)
EXTENDS Integers, Sequences, FiniteSets, TLC

\* ------------------------------------------------------------------ bounds
MaxElapsed == 3
MaxRequests == 2
MaxIntervals == 2
MaxCalls == 3
MaxTime == 5
MaxDelay == 2
MaxCallbacks == 2
MaxInstances == 1
MaxNumber == 1
MaxCardElapsed == 1
MaxCardRequests == 2
MaxCardIds == 2

\* ------------------------------------------------------------- constants
NoInterval == 0
NoElapsed == 0 - 1
Undefined == "undefined"
NoDelay == 0
NoTimer == 0
NoCallback == 0
CardPeriod == 2

\* ================================================================ useTimer
VARIABLES
  timer,         \* useState<Timer>: the state of the last render
  pending,       \* the rendered state with the queued setTimer updaters applied
  intervalRef,   \* intervalRef.current: NoInterval (null) or an interval id
  intervals,     \* the ids of the intervals that setInterval made and nothing cleared
  timerRef,      \* timerRef.current
  isRunningRef,  \* isRunningRef.current
  initialTimer,  \* the initialTimer argument of the last render
  mounted,       \* the hook's component is mounted
  requests,      \* timerApi.updateTimer calls, in issue order, with their outcome
  lastOp,        \* history: the kind of the last step
  lastCall       \* history: the last accepted handler call and the ticks since

timerVars == <<timer, pending, intervalRef, intervals, timerRef, isRunningRef,
               initialTimer, mounted, requests, lastOp, lastCall>>

\* ================================================================ useAsync
VARIABLES
  asyncVariant,        \* which implementation: "hooks" (src/src/hooks/useAsync.ts)
                       \* or "part002" (src/unnamed/part_002)
  asyncState,          \* useState<AsyncState<T>>: value, isLoading, error
  latestRequestIdRef,  \* latestRequestIdRef.current
  isMountedRef,        \* isMountedRef.current
  calls,               \* the invocations of asyncFunction, in issue order
  settleOrder,         \* history: the indices of calls, in the order they settled
  lateSetState         \* history: who called setState after the unmount
                       \* ("execute", "settle"); React drops such a call

asyncVars == <<asyncVariant, asyncState, latestRequestIdRef, isMountedRef, calls,
               settleOrder, lateSetState>>

\* ============================================================= useInterval
VARIABLES
  callback,        \* the callback argument of the last render (a function identity)
  delay,           \* the delay argument of the last render: NoDelay (null) or a number
  savedCallback,   \* savedCallback.current
  intervalId,      \* the `id` the cleanup of the delay effect closes over, or NoTimer
  timers,          \* the runtime's live setInterval timers: id, delay, due, and the
                   \* history fields since (creation time) and fires (firings so far)
  intervalMounted, \* the component using the hook is mounted
  now,             \* the clock
  lastInvoked      \* history: the callback the last firing invoked, or NoCallback

intervalVars == <<callback, delay, savedCallback, intervalId, timers,
                  intervalMounted, now, lastInvoked>>

\* ========================================================= useLocalStorage
VARIABLES
  localStorage,   \* window.localStorage: the texts stored under the keys that have one
  hooks,          \* the hook instances: mounted, key, initialValue, storedValue
  lastSetValue    \* history: the last setValue call (instance, key, value) and the
                  \* instances mounted with that key since (readers)

storageVars == <<localStorage, hooks, lastSetValue>>

\* =============================================================== TimerCard
VARIABLES
  card,           \* the rendered state: elapsed, isRunning, intervalId, error
  cardPending,    \* the rendered state with every queued setState applied
  cardCleanup,    \* the id the cleanup of the last interval effect run will clear
  cardTimers,     \* the window's live intervals: id and ticks left until due
  cardNextId,     \* the id the next window.setInterval returns
  cardAged,       \* a tick has passed since the oldest update not yet rendered
  cardMounted,    \* the card is in the tree
  cardRequests,   \* timerApi calls in flight: the handler or effect that made each
  cardFired       \* history: an interval callback of the card has run

cardVars == <<card, cardPending, cardCleanup, cardTimers, cardNextId, cardAged,
              cardMounted, cardRequests, cardFired>>

vars == <<timer, pending, intervalRef, intervals, timerRef, isRunningRef,
          initialTimer, mounted, requests, lastOp, lastCall,
          asyncVariant, asyncState, latestRequestIdRef, isMountedRef, calls,
          settleOrder, lateSetState,
          callback, delay, savedCallback, intervalId, timers, intervalMounted,
          now, lastInvoked,
          localStorage, hooks, lastSetValue,
          card, cardPending, cardCleanup, cardTimers, cardNextId, cardAged,
          cardMounted, cardRequests, cardFired>>

\* What a step of one hook leaves alone: the state of the other hooks.
notTimerVars == <<asyncVars, intervalVars, storageVars, cardVars>>
notAsyncVars == <<timerVars, intervalVars, storageVars, cardVars>>
notIntervalVars == <<timerVars, asyncVars, storageVars, cardVars>>
notStorageVars == <<timerVars, asyncVars, intervalVars, cardVars>>
notCardVars == <<timerVars, asyncVars, intervalVars, storageVars>>

\* ---------------------------------------------------- useTimer: the model

\* The Timer fields the hook reads or writes (elapsed, isRunning).
Timer(e, r) == [elapsed |-> e, isRunning |-> r]

\* The snapshots a parent can pass as initialTimer: a fresh timer and one with
\* elapsed time, each stopped or running.
Snapshots == {Timer(e, r) : e \in {0, MaxElapsed - 1}, r \in BOOLEAN}

\* setTimer(prev => ({ ...prev, isRunning: true }))
RunUpdaterRestarts(prev) == [prev EXCEPT !.elapsed = 0, !.isRunning = TRUE]
RunUpdater(prev) == [prev EXCEPT !.isRunning = TRUE]

\* setTimer(prev => ({ ...prev, elapsed: prev.elapsed + 1 }))
TickUpdaterCountsDown(prev) == [prev EXCEPT !.elapsed = prev.elapsed - 1]
TickUpdaterSkips(prev) == [prev EXCEPT !.elapsed = prev.elapsed + 2]
TickUpdater(prev) == [prev EXCEPT !.elapsed = prev.elapsed + 1]

\* setTimer(prev => ({ ...prev, isRunning: false }))
PauseUpdater(prev) == [prev EXCEPT !.isRunning = FALSE]

\* setTimer(prev => ({ ...prev, elapsed: 0, isRunning: false }))
ResetUpdaterKeepsElapsed(prev) == [prev EXCEPT !.isRunning = FALSE]
ResetUpdater(prev) == [prev EXCEPT !.elapsed = 0, !.isRunning = FALSE]

\* setTimer on a mounted hook queues the update; on an unmounted one it is dropped.
SetTimer(next) == IF mounted THEN next ELSE pending

\* setInterval: a fresh id (ids of cleared intervals are referenced nowhere).
FreshInterval(ivs) == CHOOSE i \in 1..MaxIntervals : i \notin ivs /\ \A j \in 1..(i - 1) : j \in ivs
CanSetInterval(ivs) == Cardinality(ivs) < MaxIntervals

\* clearTimerInterval: clearInterval(intervalRef.current) when it is not null.
ClearTimerIntervalMissing(ref, ivs) == ivs
ClearTimerInterval(ref, ivs) == IF ref # NoInterval THEN ivs \ {ref} ELSE ivs

\* start's early return: if (isRunningRef.current || intervalRef.current !== null) return;
StartRejectedRunningOnly(running, ref) == running
StartRejectedIntervalOnly(running, ref) == ref # NoInterval
StartRejected(running, ref) == running \/ ref # NoInterval

\* The reconciler effect makes an interval only if (intervalRef.current === null).
ReconcilerMakesAlways(ref) == TRUE
ReconcilerMakes(ref) == ref = NoInterval

\* The cleanup returned by the last effect: return clearTimerInterval;
UnmountCleanupMissing(ref, ivs) == ivs
UnmountCleanup(ref, ivs) == ClearTimerInterval(ref, ivs)

\* A request as issued: kind, the payload's fields, and its outcome so far.
Request(k, r, e) == [kind |-> k, isRunning |-> r, elapsed |-> e, status |-> "pending"]

\* The catch block of a handler whose updateTimer call rejected: console.error
\* and nothing else, so the state to render stays as it is.
CatchBlockRollsBack(kind, prev) ==
  IF kind = "start" THEN [prev EXCEPT !.isRunning = FALSE]
  ELSE [prev EXCEPT !.isRunning = TRUE]
CatchBlock(kind, prev) == prev

\* The elapsed value pause() sends: const { id, elapsed } = timerRef.current
PauseElapsed == timerRef.elapsed

NoCall == [op |-> "none", base |-> 0, n |-> 0]

\* History of a handler call on the mounted hook: the call, the elapsed value it
\* started from, and (n) the interval firings since.
Called(op, e) == IF mounted THEN [op |-> op, base |-> e, n |-> 0] ELSE NoCall

\* The object the hook returns: { timer, start, pause, reset } (the handlers are the
\* actions below).
UseTimerResult == [timer |-> timer]

\* result.current.error, as a caller reads it.
ResultError == IF "error" \in DOMAIN UseTimerResult THEN UseTimerResult["error"] ELSE Undefined

\* State after the first render and its effects: the refs hold the snapshot, the
\* sync effect's setTimer(initialTimer) is a no-op (same object), and the reconciler
\* effect has made the interval of a snapshot that is running.
TimerInit ==
  /\ initialTimer \in Snapshots
  /\ timer = initialTimer
  /\ pending = initialTimer
  /\ timerRef = initialTimer
  /\ isRunningRef = initialTimer.isRunning
  /\ intervalRef = (IF initialTimer.isRunning THEN FreshInterval({}) ELSE NoInterval)
  /\ intervals = (IF initialTimer.isRunning THEN {FreshInterval({})} ELSE {})
  /\ mounted = TRUE
  /\ requests = <<>>
  /\ lastOp = "mount"
  /\ lastCall = NoCall

\* start()
Start ==
  /\ IF StartRejected(isRunningRef, intervalRef)
     THEN /\ lastOp' = "startRejected"
          /\ UNCHANGED <<timer, pending, intervalRef, intervals, timerRef, isRunningRef,
                         initialTimer, mounted, requests, lastCall>>
     ELSE /\ Len(requests) < MaxRequests
          /\ CanSetInterval(intervals)
          /\ pending' = SetTimer(RunUpdater(pending))
          /\ intervalRef' = FreshInterval(intervals)
          /\ intervals' = intervals \cup {FreshInterval(intervals)}
          /\ requests' = Append(requests, Request("start", TRUE, NoElapsed))
          /\ lastOp' = "start"
          /\ lastCall' = Called("start", pending.elapsed)
          /\ UNCHANGED <<timer, timerRef, isRunningRef, initialTimer, mounted>>
  /\ UNCHANGED notTimerVars

\* pause()
Pause ==
  /\ Len(requests) < MaxRequests
  /\ intervals' = ClearTimerInterval(intervalRef, intervals)
  /\ intervalRef' = NoInterval
  /\ pending' = SetTimer(PauseUpdater(pending))
  /\ requests' = Append(requests, Request("pause", FALSE, PauseElapsed))
  /\ lastOp' = "pause"
  /\ lastCall' = Called("pause", 0)
  /\ UNCHANGED <<timer, timerRef, isRunningRef, initialTimer, mounted>>
  /\ UNCHANGED notTimerVars

\* reset()
Reset ==
  /\ Len(requests) < MaxRequests
  /\ intervals' = ClearTimerInterval(intervalRef, intervals)
  /\ intervalRef' = NoInterval
  /\ pending' = SetTimer(ResetUpdater(pending))
  /\ requests' = Append(requests, Request("reset", FALSE, 0))
  /\ lastOp' = "reset"
  /\ lastCall' = Called("reset", 0)
  /\ UNCHANGED <<timer, timerRef, isRunningRef, initialTimer, mounted>>
  /\ UNCHANGED notTimerVars

\* One firing of a live interval (the callback of start's or the reconciler's
\* setInterval; both run the same updater).  The model stops counting at
\* MaxElapsed.
Tick ==
  /\ \E id \in intervals :
       /\ mounted => pending.elapsed < MaxElapsed
       /\ pending' = SetTimer(TickUpdater(pending))
       /\ lastOp' = "tick"
       /\ lastCall' = IF lastCall.op = "start" THEN [lastCall EXCEPT !.n = @ + 1] ELSE lastCall
       /\ UNCHANGED <<timer, intervalRef, intervals, timerRef, isRunningRef,
                      initialTimer, mounted, requests>>
  /\ UNCHANGED notTimerVars

\* The sync effect: setTimer(initialTimer), whatever the local state `t` is.
SyncEffectKeepsElapsed(t, prop) == [prop EXCEPT !.elapsed = t.elapsed]
SyncEffect(t, prop) == prop

\* The effects of one commit, in source order, for the state `t` just committed:
\*   timerRef.current = timer; isRunningRef.current = timer.isRunning;
\*   the sync effect when initialTimer changed identity; the reconciler effect when
\*   timer.isRunning changed.
Commit(t, propChanged, prop) ==
  /\ timer' = t
  /\ timerRef' = t
  /\ isRunningRef' = t.isRunning
  /\ pending' = IF propChanged THEN SyncEffect(t, prop) ELSE t
  /\ IF t.isRunning = timer.isRunning
     THEN UNCHANGED <<intervalRef, intervals>>
     ELSE IF ~t.isRunning
          THEN /\ intervals' = ClearTimerInterval(intervalRef, intervals)
               /\ intervalRef' = NoInterval
          ELSE IF ReconcilerMakes(intervalRef)
               THEN /\ CanSetInterval(intervals)
                    /\ intervalRef' = FreshInterval(intervals)
                    /\ intervals' = intervals \cup {FreshInterval(intervals)}
               ELSE UNCHANGED <<intervalRef, intervals>>

\* A re-render caused by queued state updates.
Render ==
  /\ mounted
  /\ pending # timer
  /\ Commit(pending, FALSE, initialTimer)
  /\ lastOp' = "render"
  /\ UNCHANGED <<initialTimer, mounted, requests, lastCall>>
  /\ UNCHANGED notTimerVars

\* The parent re-renders the hook with a new initialTimer object.
PropChange ==
  /\ \E p \in Snapshots :
       /\ mounted
       /\ initialTimer' = p
       /\ Commit(pending, TRUE, p)
       /\ lastOp' = "prop"
       /\ lastCall' = NoCall
       /\ UNCHANGED <<mounted, requests>>
  /\ UNCHANGED notTimerVars

\* Unmount: the cleanup of the last effect runs clearTimerInterval; the queued
\* updates are never rendered.
Unmount ==
  /\ mounted
  /\ mounted' = FALSE
  /\ intervals' = UnmountCleanup(intervalRef, intervals)
  /\ intervalRef' = NoInterval
  /\ pending' = timer
  /\ lastOp' = "unmount"
  /\ lastCall' = NoCall
  /\ UNCHANGED <<timer, timerRef, isRunningRef, initialTimer, requests>>
  /\ UNCHANGED notTimerVars

\* The promise of an updateTimer call settles; a rejection is caught and logged
\* (console.error), nothing else.
SettleRequest ==
  /\ \E i \in 1..Len(requests), outcome \in {"ok", "failed"} :
       /\ requests[i].status = "pending"
       /\ requests' = [requests EXCEPT ![i].status = outcome]
       /\ pending' = IF outcome = "failed"
                     THEN SetTimer(CatchBlock(requests[i].kind, pending))
                     ELSE pending
       /\ UNCHANGED <<timer, intervalRef, intervals, timerRef, isRunningRef,
                      initialTimer, mounted, lastOp, lastCall>>
  /\ UNCHANGED notTimerVars

\* ---------------------------------------------------- useAsync: the model

\* null, the value a call resolves with, the Error a call rejects with, and
\* new Error('An error occurred') made for a rejection that is no Error.
Null == [kind |-> "null", of |-> 0]
Response(i) == [kind |-> "response", of |-> i]
ThrownError(i) == [kind |-> "Error", of |-> i]
GenericError(i) == [kind |-> "An error occurred", of |-> i]

AsyncState(v, l, e) == [value |-> v, isLoading |-> l, error |-> e]

\* setState(prev => ({ ...prev, isLoading: true, error: null }))
LoadingUpdaterStaysIdle(prev) == [prev EXCEPT !.error = Null]
LoadingUpdater(prev) == [prev EXCEPT !.isLoading = TRUE, !.error = Null]

\* setState on a mounted hook; dropped by React on an unmounted one.
SetAsyncState(next) == IF isMountedRef THEN next ELSE asyncState

\* The gate of a success: !isMountedRef.current || requestId !== latest -> return
SuccessAppliesIgnoresId(id) == isMountedRef
SuccessAppliesIgnoresMount(id) == id = latestRequestIdRef
SuccessApplies(id) == isMountedRef /\ id = latestRequestIdRef

\* The gate of a failure, the same test in the catch block.
FailureAppliesIgnoresId(id) == isMountedRef
FailureApplies(id) == isMountedRef /\ id = latestRequestIdRef

\* caughtError instanceof Error ? caughtError : new Error('An error occurred')
CaughtError(i, outcome) == IF outcome = "rejected" THEN ThrownError(i) ELSE GenericError(i)

\* The state a gated success writes: { value: response, isLoading: false, error: null }
SuccessStateKeepsPrev(i) == [asyncState EXCEPT !.isLoading = FALSE]
SuccessState(i) == AsyncState(Response(i), FALSE, Null)

\* The state a gated failure writes.
\*   hooks:   setState(prev => ({ ...prev, isLoading: false, error }))
\*   part002: setState({ value: null, isLoading: false, error })
FailureState(prev, err) ==
  IF asyncVariant = "hooks"
  THEN [prev EXCEPT !.isLoading = FALSE, !.error = err]
  ELSE AsyncState(Null, FALSE, err)

Call(id) == [id |-> id, status |-> "pending"]

\* The record of setState calls made after the unmount, after `source` has or has
\* not called setState.
LateSetState(source, called) ==
  IF called /\ ~isMountedRef THEN lateSetState \cup {source} ELSE lateSetState

\* State after the first render and its effects.  With immediate = true the
\* mount effect has called execute() once: isLoading starts true and request 1
\* is in flight.
AsyncInit ==
  /\ asyncVariant \in {"hooks", "part002"}
  /\ isMountedRef = TRUE
  /\ settleOrder = <<>>
  /\ lateSetState = {}
  /\ \E immediate \in BOOLEAN :
       /\ asyncState = AsyncState(Null, immediate, Null)
       /\ latestRequestIdRef = (IF immediate THEN 1 ELSE 0)
       /\ calls = (IF immediate THEN <<Call(1)>> ELSE <<>>)

\* execute(...args)
\*   hooks:   unmounted -> return undefined, before anything else.
\*   part002: setState first; unmounted -> return asyncFunctionRef.current(...args),
\*            a call with no request id and no continuation in the hook (id 0).
Execute ==
  /\ Len(calls) < MaxCalls
  /\ IF isMountedRef
     THEN /\ latestRequestIdRef' = latestRequestIdRef + 1
          /\ asyncState' = SetAsyncState(LoadingUpdater(asyncState))
          /\ calls' = Append(calls, Call(latestRequestIdRef + 1))
          /\ UNCHANGED lateSetState
     ELSE IF asyncVariant = "hooks"
          THEN UNCHANGED <<latestRequestIdRef, asyncState, calls, lateSetState>>
          ELSE /\ UNCHANGED <<latestRequestIdRef>>
               /\ asyncState' = SetAsyncState(LoadingUpdater(asyncState))
               /\ lateSetState' = LateSetState("execute", TRUE)
               /\ calls' = Append(calls, Call(0))
  /\ UNCHANGED <<asyncVariant, isMountedRef, settleOrder>>
  /\ UNCHANGED notAsyncVars

\* The promise of call i settles and execute's continuation runs.
Settle ==
  /\ \E i \in 1..Len(calls), outcome \in {"resolved", "rejected", "rejectedNonError"} :
       /\ calls[i].status = "pending"
       /\ calls' = [calls EXCEPT ![i].status = outcome]
       /\ settleOrder' = Append(settleOrder, i)
       /\ asyncState' =
            IF calls[i].id = 0 THEN asyncState
            ELSE IF outcome = "resolved"
                 THEN IF SuccessApplies(calls[i].id)
                      THEN SetAsyncState(SuccessState(i)) ELSE asyncState
                 ELSE IF FailureApplies(calls[i].id)
                      THEN SetAsyncState(FailureState(asyncState, CaughtError(i, outcome)))
                      ELSE asyncState
       /\ lateSetState' =
            LateSetState("settle",
                         /\ calls[i].id # 0
                         /\ IF outcome = "resolved" THEN SuccessApplies(calls[i].id)
                            ELSE FailureApplies(calls[i].id))
       /\ UNCHANGED <<asyncVariant, latestRequestIdRef, isMountedRef>>
  /\ UNCHANGED notAsyncVars

\* Unmount: the cleanup sets isMountedRef.current = false.
AsyncUnmount ==
  /\ isMountedRef
  /\ isMountedRef' = FALSE
  /\ UNCHANGED <<asyncVariant, asyncState, latestRequestIdRef, calls, settleOrder,
                 lateSetState>>
  /\ UNCHANGED notAsyncVars

\* useAsync left as mounted with immediate = false and never used.
AsyncParked ==
  /\ asyncVariant = "hooks"
  /\ asyncState = AsyncState(Null, FALSE, Null)
  /\ latestRequestIdRef = 0
  /\ isMountedRef = TRUE
  /\ calls = <<>>
  /\ settleOrder = <<>>
  /\ lateSetState = {}

\* useTimer left as mounted on a stopped, fresh timer and never used.
TimerParked ==
  /\ TimerInit
  /\ initialTimer = Timer(0, FALSE)

\* ------------------------------------------------------ the specifications

\* --------------------------------------------------- useInterval: the model

Callbacks == 1..MaxCallbacks
Delays == 1..MaxDelay

\* useEffect(() => { savedCallback.current = callback }, [callback])
SavedCallbackEffect(saved, cb) == cb

\* The dependency list of the delay effect: [delay].
DelayEffectRunsOnAnyChange(delayChanged, callbackChanged) ==
  delayChanged \/ callbackChanged
DelayEffectRuns(delayChanged, callbackChanged) == delayChanged

\* setInterval(fn, d) called at time t: the first firing is due a full period later.
FirstDueImmediate(t, d) == t
FirstDue(t, d) == t + d

\* A timer that fired at its due time is due again one period later.
NextDue(due, d) == due + d

\* setInterval returns an id no live timer has.
FreshTimer(live) ==
  CHOOSE i \in 1..(Cardinality(live) + 1) : \A iv \in live : iv.id # i

SetIntervalTimer(live, t, d) ==
  [id |-> FreshTimer(live), delay |-> d, due |-> FirstDue(t, d),
   since |-> t, fires |-> 0]

\* The cleanup of the delay effect: clearInterval(id); an effect that returned
\* undefined (delay === null) has no cleanup.
DelayEffectCleanupMissing(id, live) == live
DelayEffectCleanup(id, live) == {iv \in live : iv.id # id}

\* The delay effect for the delay d, run at time t over the live timers.
DelayEffect(live, t, d) ==
  IF d = NoDelay THEN live ELSE live \cup {SetIntervalTimer(live, t, d)}

DelayEffectId(live, d) == IF d = NoDelay THEN NoTimer ELSE FreshTimer(live)

\* The first render and its two effects.
IntervalInit ==
  /\ callback \in Callbacks
  /\ delay \in {NoDelay} \cup Delays
  /\ savedCallback = SavedCallbackEffect(NoCallback, callback)
  /\ intervalId = DelayEffectId({}, delay)
  /\ timers = DelayEffect({}, 0, delay)
  /\ intervalMounted = TRUE
  /\ now = 0
  /\ lastInvoked = NoCallback

TimerDue == \E iv \in timers : iv.due <= now

\* Time passes; a timer that is due fires before the clock moves on.
Advance ==
  /\ now < MaxTime
  /\ ~TimerDue
  /\ now' = now + 1
  /\ UNCHANGED <<callback, delay, savedCallback, intervalId, timers,
                 intervalMounted, lastInvoked>>
  /\ UNCHANGED notIntervalVars

\* The timer callback: savedCallback.current?.()
Fire ==
  /\ \E iv \in timers :
       /\ iv.due <= now
       /\ timers' = (timers \ {iv}) \cup
                      {[iv EXCEPT !.due = NextDue(iv.due, iv.delay), !.fires = @ + 1]}
       /\ lastInvoked' = savedCallback
       /\ UNCHANGED <<callback, delay, savedCallback, intervalId, intervalMounted, now>>
  /\ UNCHANGED notIntervalVars

\* A re-render with a new callback, a new delay, or both, and its effects: the
\* savedCallback effect when callback changed, the delay effect (cleanup of the
\* previous run, then the new run) when its dependencies changed.
Rerender ==
  /\ \E cb \in Callbacks, d \in {NoDelay} \cup Delays :
       /\ intervalMounted
       /\ <<cb, d>> # <<callback, delay>>
       /\ callback' = cb
       /\ delay' = d
       /\ savedCallback' = IF cb # callback
                           THEN SavedCallbackEffect(savedCallback, cb)
                           ELSE savedCallback
       /\ IF DelayEffectRuns(d # delay, cb # callback)
          THEN LET kept == IF intervalId = NoTimer THEN timers
                           ELSE DelayEffectCleanup(intervalId, timers)
               IN /\ timers' = DelayEffect(kept, now, d)
                  /\ intervalId' = DelayEffectId(kept, d)
          ELSE UNCHANGED <<timers, intervalId>>
       /\ UNCHANGED <<intervalMounted, now, lastInvoked>>
  /\ UNCHANGED notIntervalVars

\* Unmount: the cleanup of the last run of the delay effect.
IntervalUnmount ==
  /\ intervalMounted
  /\ intervalMounted' = FALSE
  /\ timers' = IF intervalId = NoTimer THEN timers
               ELSE DelayEffectCleanup(intervalId, timers)
  /\ intervalId' = NoTimer
  /\ UNCHANGED <<callback, delay, savedCallback, now, lastInvoked>>
  /\ UNCHANGED notIntervalVars

\* useInterval left mounted with a null delay and unused.
IntervalParked ==
  /\ IntervalInit
  /\ callback = 1
  /\ delay = NoDelay

\* ----------------------------------------------- useLocalStorage: the model

Instances == 1..MaxInstances
Keys == {"k1", "k2"}
Numbers == 0..MaxNumber

\* The values of T: numbers, NaN, null and undefined; FunctionValue is an updater
\* prev => prev + 1 passed to setValue.
NumberValue(n) == [type |-> "number", n |-> n]
NaNValue == [type |-> "NaN", n |-> 0]
NullValue == [type |-> "null", n |-> 0]
UndefinedValue == [type |-> "undefined", n |-> 0]
FunctionValue == [type |-> "function", n |-> 0]

Values == {NumberValue(n) : n \in Numbers} \cup {NaNValue, NullValue, UndefinedValue}
InitialValues == {NumberValue(0), NullValue}

\* The texts another window may leave under a key.
Texts == {ToString(n) : n \in Numbers} \cup {"null", "invalid JSON"}

\* serialize (JSON.stringify by default) and the text setItem stores for it:
\* NaN becomes "null"; JSON.stringify(undefined) is undefined, which setItem
\* stores as the text "undefined".
JSONStringify(v) ==
  IF v.type = "number" THEN ToString(v.n)
  ELSE IF v.type = "undefined" THEN "undefined"
  ELSE "null"

\* deserialize (JSON.parse by default): a value, or a SyntaxError thrown.
JSONParse(text) ==
  IF text = "null" THEN [ok |-> TRUE, value |-> NullValue]
  ELSE IF \E n \in Numbers : ToString(n) = text
       THEN [ok |-> TRUE,
             value |-> NumberValue(CHOOSE n \in Numbers : ToString(n) = text)]
       ELSE [ok |-> FALSE, value |-> UndefinedValue]

\* The lazy initial state and the re-sync effect: getItem(key); null gives
\* initialValue; a deserialize that throws is logged and gives initialValue.
ReadItemUncaught(store, k, init) ==
  IF k \notin DOMAIN store THEN init ELSE JSONParse(store[k]).value
ReadItem(store, k, init) ==
  IF k \notin DOMAIN store THEN init
  ELSE IF JSONParse(store[k]).ok THEN JSONParse(store[k]).value ELSE init

\* prev => prev + 1 in JavaScript: null + 1 is 1, undefined + 1 and NaN + 1 are NaN.
Increment(prev) ==
  IF prev.type = "number" THEN NumberValue(prev.n + 1)
  ELSE IF prev.type = "null" THEN NumberValue(1)
  ELSE NaNValue

\* typeof value === 'function' ? value(prev) : value
ValueToStore(value, prev) ==
  IF value.type = "function" THEN Increment(prev) ELSE value

\* window.localStorage.setItem(key, text)
SetItem(store, k, text) ==
  [x \in DOMAIN store \cup {k} |-> IF x = k THEN text ELSE store[x]]

\* try { setItem(key, serialize(valueToStore)) } catch { console.error(...) }
TrySetItem(store, k, v, throws) ==
  IF throws THEN store ELSE SetItem(store, k, JSONStringify(v))

\* The updater of setValue returns valueToStore after the try/catch, whether or
\* not setItem threw.
UpdaterResultUncaught(prev, valueToStore, throws) ==
  IF throws THEN prev ELSE valueToStore
UpdaterResult(prev, valueToStore, throws) == valueToStore

\* removeItem(key) in another window
RemoveItem(store, k) == [x \in DOMAIN store \ {k} |-> store[x]]

Hook(m, k, init, v) ==
  [mounted |-> m, key |-> k, initialValue |-> init, storedValue |-> v]

NotMounted == Hook(FALSE, "k1", NullValue, NullValue)

\* The history record of setValue calls: `called` once there was one; instance is
\* NoInstance once the caller has unmounted; threw tells that setItem threw.
NoInstance == 0
NoSetValue ==
  [called |-> FALSE, instance |-> NoInstance, key |-> "k1", value |-> NullValue,
   threw |-> FALSE, readers |-> {}]

\* handleStorageChange: the state of a hook after the event (key, newValue), where
\* newValue is a text, or absent when the key was removed.
HandleStorageChange(h, k, removed, text) ==
  IF ~h.mounted \/ h.key # k THEN h
  ELSE IF removed THEN [h EXCEPT !.storedValue = h.initialValue]
  ELSE IF JSONParse(text).ok THEN [h EXCEPT !.storedValue = JSONParse(text).value]
  ELSE h

\* No instance is mounted; localStorage holds what earlier sessions left.
StorageInit ==
  /\ \E present \in SUBSET Keys : localStorage \in [present -> Texts]
  /\ hooks = [i \in Instances |-> NotMounted]
  /\ lastSetValue = NoSetValue

\* A component using the hook mounts: the lazy initial state reads the key, and
\* the re-sync effect of the first commit reads it again.
MountHook ==
  /\ \E i \in Instances, k \in Keys, init \in InitialValues :
       /\ ~hooks[i].mounted
       /\ hooks' = [hooks EXCEPT
                      ![i] = Hook(TRUE, k, init, ReadItem(localStorage, k, init))]
       /\ lastSetValue' =
            IF lastSetValue.called /\ lastSetValue.key = k
            THEN [lastSetValue EXCEPT !.readers = @ \cup {i}]
            ELSE lastSetValue
       /\ UNCHANGED localStorage
  /\ UNCHANGED notStorageVars

\* setValue(value) and the render that runs its updater; setItem may throw
\* (quota exceeded), which is logged.
SetValue ==
  /\ \E i \in Instances, value \in Values \cup {FunctionValue}, throws \in BOOLEAN :
       LET h == hooks[i]
           valueToStore == ValueToStore(value, h.storedValue)
       IN /\ h.mounted
          /\ valueToStore.type = "number" => valueToStore.n \in Numbers
          /\ localStorage' = TrySetItem(localStorage, h.key, valueToStore, throws)
          /\ hooks' = [hooks EXCEPT
                         ![i].storedValue =
                            UpdaterResult(h.storedValue, valueToStore, throws)]
          /\ lastSetValue' = [called |-> TRUE, instance |-> i, key |-> h.key,
                              value |-> valueToStore, threw |-> throws,
                              readers |-> {}]
  /\ UNCHANGED notStorageVars

\* A re-render with another key: the re-sync effect reads the new key.
ChangeKey ==
  /\ \E i \in Instances, k \in Keys :
       /\ hooks[i].mounted
       /\ k # hooks[i].key
       /\ hooks' = [hooks EXCEPT
                      ![i].key = k,
                      ![i].storedValue = ReadItem(localStorage, k, hooks[i].initialValue)]
       /\ lastSetValue' =
            IF lastSetValue.instance = i THEN NoSetValue
            ELSE [lastSetValue EXCEPT !.readers = @ \ {i}]
       /\ UNCHANGED localStorage
  /\ UNCHANGED notStorageVars

\* Another window sets or removes a key: a storage event reaches the
\* handleStorageChange of every mounted instance.
StorageEvent ==
  /\ \E k \in Keys, removed \in BOOLEAN, text \in Texts :
       /\ removed => k \in DOMAIN localStorage
       /\ localStorage' = IF removed THEN RemoveItem(localStorage, k)
                          ELSE SetItem(localStorage, k, text)
       /\ hooks' = [i \in Instances |->
                      HandleStorageChange(hooks[i], k, removed, text)]
       /\ lastSetValue' = NoSetValue
  /\ UNCHANGED notStorageVars

\* The component unmounts; localStorage keeps what was written.
UnmountHook ==
  /\ \E i \in Instances :
       /\ hooks[i].mounted
       /\ hooks' = [hooks EXCEPT ![i] = NotMounted]
       /\ lastSetValue' =
            [lastSetValue EXCEPT
               !.readers = @ \ {i},
               !.instance = IF @ = i THEN NoInstance ELSE @]
       /\ UNCHANGED localStorage
  /\ UNCHANGED notStorageVars

\* useLocalStorage unused: nothing mounted, nothing stored.
StorageParked ==
  /\ StorageInit
  /\ DOMAIN localStorage = {}

\* ================================================== TimerCard (component)
\* The card keeps elapsed, isRunning, intervalId and error in useState
\* (TimerCard.tsx l.24-31); as for useTimer the queue of setState calls is kept
\* folded in cardPending and a render commits it.  Time is counted in ticks of
\* half the interval's period, and React renders a queued update before a whole
\* tick has passed over it (cardAged).  The edit form (name, description,
\* isEditing, isSaving) plays no part in the interval and is left out.
CardStates ==
  [elapsed : 0..MaxCardElapsed, isRunning : BOOLEAN,
   intervalId : 0..MaxCardIds, error : BOOLEAN]

\* What timerApi answers: an error, or the stored record.
CardResponses ==
  {[error |-> TRUE, elapsed |-> 0, isRunning |-> FALSE]} \cup
  [error : {FALSE}, elapsed : 0..MaxCardElapsed, isRunning : BOOLEAN]

\* The id of the next window.setInterval: never the one returned last.
NextCardId(id) == (id % MaxCardIds) + 1

ClearCardInterval(id, live) == {t \in live : t.id # id}

\* The dependency list of the interval effect: [isRunning, intervalId, elapsed,
\* timer.id]; timer.id never changes for a card.
CardDepsChanged(a, b) ==
  \/ a.isRunning # b.isRunning
  \/ a.intervalId # b.intervalId
  \/ a.elapsed # b.elapsed

\* One run of the interval effect on the rendered state c, with the queue p, the
\* live intervals and the next id: the intervals, the queue and the id its
\* cleanup captured afterwards.
CardIntervalEffect(c, p, live, next) ==
  IF c.isRunning
  THEN [timers |-> live \cup {[id |-> next, left |-> CardPeriod]},
        pending |-> [p EXCEPT !.intervalId = next],
        cleanup |-> next,
        nextId |-> NextCardId(next)]
  ELSE IF c.intervalId # NoTimer
       THEN [timers |-> ClearCardInterval(c.intervalId, live),
             pending |-> [p EXCEPT !.intervalId = NoTimer],
             cleanup |-> NoTimer,
             nextId |-> next]
       ELSE [timers |-> live, pending |-> p, cleanup |-> NoTimer,
             nextId |-> next]

\* The update queue p is older than a tick: it was, and something is still queued.
CardAgedWith(p) == cardAged /\ p # card

RemoveAt(s, i) == [j \in 1..(Len(s) - 1) |-> IF j < i THEN s[j] ELSE s[j + 1]]

\* The card after its first render and effects, for a timer prop with the given
\* elapsed and isRunning: the mount effect has called getTimer, the interval
\* effect has run once.
CardInit ==
  \E e \in 0..MaxCardElapsed, r \in BOOLEAN :
    LET c == [elapsed |-> e, isRunning |-> r, intervalId |-> NoTimer,
              error |-> FALSE]
        eff == CardIntervalEffect(c, c, {}, 1)
    IN /\ card = c
       /\ cardPending = eff.pending
       /\ cardCleanup = eff.cleanup
       /\ cardTimers = eff.timers
       /\ cardNextId = eff.nextId
       /\ cardAged = FALSE
       /\ cardMounted = TRUE
       /\ cardRequests = <<"getTimer">>
       /\ cardFired = FALSE

\* No card rendered.
CardParked ==
  /\ card = [elapsed |-> 0, isRunning |-> FALSE, intervalId |-> NoTimer,
             error |-> FALSE]
  /\ cardPending = card
  /\ cardCleanup = NoTimer
  /\ cardTimers = {}
  /\ cardNextId = 1
  /\ cardAged = FALSE
  /\ cardMounted = FALSE
  /\ cardRequests = <<>>
  /\ cardFired = FALSE

handleStart ==
  /\ cardMounted
  /\ Len(cardRequests) < MaxCardRequests
  /\ cardPending' = [cardPending EXCEPT !.isRunning = TRUE, !.error = FALSE]
  /\ cardAged' = CardAgedWith(cardPending')
  /\ cardRequests' = Append(cardRequests, "start")
  /\ UNCHANGED <<card, cardCleanup, cardTimers, cardNextId, cardMounted, cardFired>>
  /\ UNCHANGED notCardVars

handlePause ==
  /\ cardMounted
  /\ Len(cardRequests) < MaxCardRequests
  /\ cardPending' = [cardPending EXCEPT !.isRunning = FALSE]
  /\ cardAged' = CardAgedWith(cardPending')
  /\ cardRequests' = Append(cardRequests, "pause")
  /\ UNCHANGED <<card, cardCleanup, cardTimers, cardNextId, cardMounted, cardFired>>
  /\ UNCHANGED notCardVars

handleReset ==
  /\ cardMounted
  /\ Len(cardRequests) < MaxCardRequests
  /\ cardPending' =
       [cardPending EXCEPT !.elapsed = 0, !.isRunning = FALSE,
          !.intervalId = IF card.intervalId # NoTimer THEN NoTimer ELSE @]
  /\ cardTimers' = IF card.intervalId # NoTimer
                   THEN ClearCardInterval(card.intervalId, cardTimers)
                   ELSE cardTimers
  /\ cardAged' = CardAgedWith(cardPending')
  /\ cardRequests' = Append(cardRequests, "reset")
  /\ UNCHANGED <<card, cardCleanup, cardNextId, cardMounted, cardFired>>
  /\ UNCHANGED notCardVars

\* The continuation of one timerApi call: getTimer copies the stored record into
\* the state, a failed start takes isRunning back, any failed update sets error.
\* A successful update calls onUpdate, which changes no state of the card.
CardSettle ==
  \E i \in 1..Len(cardRequests), resp \in CardResponses :
    LET op == cardRequests[i]
        p == cardPending
        q == IF op = "getTimer"
             THEN IF resp.error THEN p
                  ELSE [p EXCEPT !.elapsed = resp.elapsed,
                                 !.isRunning = resp.isRunning]
             ELSE IF ~resp.error THEN p
             ELSE IF op = "start"
                  THEN [p EXCEPT !.error = TRUE, !.isRunning = FALSE]
                  ELSE [p EXCEPT !.error = TRUE]
    IN /\ cardRequests' = RemoveAt(cardRequests, i)
       /\ cardPending' = IF cardMounted THEN q ELSE p
       /\ cardAged' = CardAgedWith(cardPending')
       /\ UNCHANGED <<card, cardCleanup, cardTimers, cardNextId, cardMounted,
                      cardFired>>
       /\ UNCHANGED notCardVars

\* A render commits the queue; when a dependency changed, the cleanup of the last
\* run of the interval effect runs and then the effect.
CardRender ==
  /\ cardMounted
  /\ cardPending # card
  /\ LET c == cardPending
         rerun == CardDepsChanged(card, c)
         eff == CardIntervalEffect(c, c,
                  ClearCardInterval(cardCleanup, cardTimers), cardNextId)
     IN /\ card' = c
        /\ cardPending' = IF rerun THEN eff.pending ELSE c
        /\ cardTimers' = IF rerun THEN eff.timers ELSE cardTimers
        /\ cardCleanup' = IF rerun THEN eff.cleanup ELSE cardCleanup
        /\ cardNextId' = IF rerun THEN eff.nextId ELSE cardNextId
  /\ cardAged' = FALSE
  /\ UNCHANGED <<cardMounted, cardRequests, cardFired>>
  /\ UNCHANGED notCardVars

\* One tick of time: every live interval is a tick nearer; one that is due runs
\* its callback, setElapsed(prev => prev + 1), and starts its next period.
CardTick ==
  /\ cardMounted
  /\ cardPending = card \/ ~cardAged
  /\ LET due == {t \in cardTimers : t.left = 1}
     IN /\ cardPending.elapsed + Cardinality(due) <= MaxCardElapsed
        /\ cardTimers' = {[t EXCEPT !.left = IF @ = 1 THEN CardPeriod ELSE @ - 1] :
                            t \in cardTimers}
        /\ cardPending' = [cardPending EXCEPT !.elapsed = @ + Cardinality(due)]
        /\ cardFired' = (cardFired \/ due # {})
  /\ cardAged' = (cardPending # card)
  /\ UNCHANGED <<card, cardCleanup, cardNextId, cardMounted, cardRequests>>
  /\ UNCHANGED notCardVars

\* The parent removes the card: the cleanup of the interval effect runs and the
\* queued updates are dropped.
CardUnmount ==
  /\ cardMounted
  /\ cardMounted' = FALSE
  /\ cardTimers' = ClearCardInterval(cardCleanup, cardTimers)
  /\ cardCleanup' = NoTimer
  /\ cardPending' = card
  /\ cardAged' = FALSE
  /\ UNCHANGED <<card, cardNextId, cardRequests, cardFired>>
  /\ UNCHANGED notCardVars

\* The persistence store (timerApi.updateTimer merges the partial fields into the
\* stored record when the call completes; calls complete in any order, or fail):
\* the isRunning values the stored record may hold given which requests were
\* applied. Any applied request may have been the last to complete; with none
\* applied the record is the one the snapshot was read from.
PersistedIsRunning ==
  LET applied == {i \in 1..Len(requests) : requests[i].status = "ok"}
  IN IF applied = {} THEN {initialTimer.isRunning}
     ELSE {requests[i].isRunning : i \in applied}

TimerNext ==
  \/ Start
  \/ Pause
  \/ Reset
  \/ Tick
  \/ Render
  \/ PropChange
  \/ Unmount
  \/ SettleRequest

TimerSpecInit ==
  /\ TimerInit
  /\ CardParked
  /\ AsyncParked
  /\ IntervalParked
  /\ StorageParked

TimerSpec == TimerSpecInit /\ [][TimerNext]_vars

AsyncNext ==
  \/ Execute
  \/ Settle
  \/ AsyncUnmount

AsyncSpecInit ==
  /\ AsyncInit
  /\ CardParked
  /\ TimerParked
  /\ IntervalParked
  /\ StorageParked

AsyncSpec == AsyncSpecInit /\ [][AsyncNext]_vars

\* Every promise settles: a pending call's continuation eventually runs.
AsyncLiveSpec == AsyncSpecInit /\ [][AsyncNext]_vars /\ WF_vars(Settle)

IntervalNext ==
  \/ Advance
  \/ Fire
  \/ Rerender
  \/ IntervalUnmount

IntervalSpecInit ==
  /\ IntervalInit
  /\ CardParked
  /\ TimerParked
  /\ AsyncParked
  /\ StorageParked

IntervalSpec == IntervalSpecInit /\ [][IntervalNext]_vars

StorageNext ==
  \/ MountHook
  \/ SetValue
  \/ ChangeKey
  \/ StorageEvent
  \/ UnmountHook

StorageSpecInit ==
  /\ StorageInit
  /\ CardParked
  /\ TimerParked
  /\ AsyncParked
  /\ IntervalParked

StorageSpec == StorageSpecInit /\ [][StorageNext]_vars

CardNext ==
  \/ handleStart
  \/ handlePause
  \/ handleReset
  \/ CardSettle
  \/ CardRender
  \/ CardTick
  \/ CardUnmount

CardSpecInit ==
  /\ CardInit
  /\ TimerParked
  /\ AsyncParked
  /\ IntervalParked
  /\ StorageParked

CardSpec == CardSpecInit /\ [][CardNext]_vars

\* React renders every queued update, and time goes on.
CardLiveSpec ==
  CardSpecInit /\ [][CardNext]_vars /\ WF_vars(CardRender) /\ SF_vars(CardTick)

\* ------------------------------------------------------- useTimer: claims

LastRequest == requests[Len(requests)]

\* C1: a start() that directly follows an accepted start(), with no render or
\* effect between the two, makes no interval and issues no request: one interval
\* is live and the one {isRunning: true} request of the first call stands.
C1_DoubleStartOnce ==
  [][(lastOp = "start" /\ Start) =>
       /\ intervals' = intervals
       /\ Cardinality(intervals') = 1
       /\ requests' = requests
       /\ LastRequest.kind = "start" /\ LastRequest.isRunning]_timerVars

\* C1 witness: mounted, the second start() was rejected while the first call's
\* isRunning flip is still unrendered; one interval, one request.
C1_Witness ==
  /\ mounted /\ lastOp = "startRejected"
  /\ ~timer.isRunning /\ pending.isRunning
  /\ Cardinality(intervals) = 1
  /\ Len(requests) = 1 /\ requests[1].kind = "start"

\* C4: at every instant at most one interval is live, and it is the one
\* intervalRef holds.
C4_AtMostOneInterval ==
  /\ Cardinality(intervals) <= 1
  /\ intervals = (IF intervalRef = NoInterval THEN {} ELSE {intervalRef})

\* C4 witness: start() made an interval and the render that followed ran the
\* reconciler effect on isRunning = true; still one interval.
C4_Witness ==
  /\ mounted /\ lastOp = "render" /\ lastCall.op = "start"
  /\ timer.isRunning /\ Cardinality(intervals) = 1

\* C5: the unmount step leaves no live interval; once unmounted the rendered
\* timer (elapsed) never changes again; an interval firing issues no request.
C5_UnmountCancels ==
  [][/\ (mounted /\ ~mounted') => (intervals' = {} /\ intervalRef' = NoInterval)
     /\ ~mounted => (timer' = timer /\ pending' = pending)
     /\ Tick => requests' = requests]_timerVars

\* C5 witness: unmounted while the timer was running and had ticked.
C5_Witness ==
  /\ ~mounted /\ lastOp = "unmount"
  /\ timer.isRunning /\ timer.elapsed > initialTimer.elapsed /\ intervals = {}

\* C6 (the claim as stated): after pause() on the mounted hook no interval is
\* live, isRunning becomes false, and the request carries {isRunning: false,
\* elapsed: v} with v the elapsed value shown once the pause is rendered.
C6_PauseSendsShownElapsed ==
  (mounted /\ lastCall.op = "pause") =>
    /\ intervals = {}
    /\ ~pending.isRunning
    /\ LastRequest.kind = "pause" /\ ~LastRequest.isRunning
    /\ LastRequest.elapsed = pending.elapsed

\* C7: after reset() on the mounted hook, in any state, no interval is live, the
\* state to render is elapsed 0 and not running, and the request carries
\* {elapsed: 0, isRunning: false}.
C7_ResetZeroes ==
  (mounted /\ lastCall.op = "reset") =>
    /\ intervals = {} /\ intervalRef = NoInterval
    /\ pending = Timer(0, FALSE)
    /\ (lastOp = "render" => timer = Timer(0, FALSE))
    /\ LastRequest.kind = "reset" /\ ~LastRequest.isRunning /\ LastRequest.elapsed = 0

\* C7 witness: reset() of a running timer with elapsed time, rendered.
C7_Witness ==
  /\ mounted /\ lastCall.op = "reset" /\ lastOp = "render"
  /\ initialTimer = Timer(MaxElapsed - 1, TRUE)
  /\ timer = Timer(0, FALSE) /\ Len(requests) = 1

\* C8: after start() from elapsed e and n interval firings, with no pause, reset,
\* unmount or snapshot change since, exactly one interval is live (one firing per
\* second) and elapsed is e + n, in the queue and, once rendered, on screen.
C8_ElapsedCountsTicks ==
  (mounted /\ lastCall.op = "start") =>
    /\ Cardinality(intervals) = 1
    /\ pending.isRunning
    /\ pending.elapsed = lastCall.base + lastCall.n
    /\ (lastOp = "render" => timer.elapsed = lastCall.base + lastCall.n)

\* C8 witness: elapsed 0, start(), three firings, rendered: elapsed is 3.
C8_Witness ==
  /\ mounted /\ lastCall = [op |-> "start", base |-> 0, n |-> 3]
  /\ lastOp = "render" /\ timer = Timer(3, TRUE)

\* C9: start() on a timer whose rendered state is running changes nothing: no
\* interval, no request, elapsed and isRunning as they were.
C9_StartWhileRunningNoop ==
  [][(timer.isRunning /\ Start) =>
       UNCHANGED <<timer, pending, intervalRef, intervals, timerRef, isRunningRef,
                   requests>>]_timerVars

\* C9 witness: start() was rejected on a hook mounted with a running snapshot,
\* and no request was ever issued.
C9_Witness ==
  /\ mounted /\ lastOp = "startRejected"
  /\ timer.isRunning /\ intervals # {} /\ requests = <<>>

\* C10 (the claim as stated): when the request of the only operation so far, a
\* start(), has failed, the returned state's error is 'Failed to start timer'.
C10_FailedStartReported ==
  (mounted /\ Len(requests) = 1 /\ requests[1].kind = "start"
     /\ requests[1].status = "failed") =>
    ResultError = "Failed to start timer"

\* C11: the step in which a request of start(), pause() or reset() fails leaves
\* the local state (rendered and queued isRunning and elapsed, refs, interval)
\* exactly as the step in which it succeeds does: untouched.
C11_FailureKeepsLocalState ==
  [][SettleRequest =>
       UNCHANGED <<timer, pending, intervalRef, intervals, timerRef,
                   isRunningRef>>]_timerVars

\* C11 witness: the request of start() failed; the timer is running, has
\* ticked and rendered, and its interval is live.
C11_Witness ==
  /\ mounted /\ Len(requests) = 1
  /\ requests[1].kind = "start" /\ requests[1].status = "failed"
  /\ lastCall.op = "start" /\ lastCall.n >= 1 /\ lastOp = "render"
  /\ timer.isRunning /\ timer.elapsed = lastCall.base + lastCall.n
  /\ intervals # {}

\* ------------------------------------------------------- useAsync: claims

AllSettled == \A i \in 1..Len(calls) : calls[i].status # "pending"

\* The index in calls of the last-issued request.
LastIssued == CHOOSE i \in 1..Len(calls) : calls[i].id = latestRequestIdRef

\* C2: mounted, once every issued call has settled, whatever the order, the
\* state is the one the last-issued call wrote: its response with error null,
\* or its error; isLoading is false.
C2_LastIssuedWins ==
  (isMountedRef /\ latestRequestIdRef > 0 /\ AllSettled) =>
    /\ ~asyncState.isLoading
    /\ calls[LastIssued].status = "resolved" =>
         asyncState = SuccessState(LastIssued)
    /\ calls[LastIssued].status # "resolved" =>
         asyncState.error = CaughtError(LastIssued, calls[LastIssued].status)

\* C2 witness: two calls, the second resolved first, then the first resolved
\* late; the state holds the second call's response.
C2_Witness ==
  /\ isMountedRef /\ Len(calls) = 2 /\ settleOrder = <<2, 1>>
  /\ calls[1].status = "resolved" /\ calls[2].status = "resolved"
  /\ asyncState = AsyncState(Response(2), FALSE, Null)

\* C3: a call that settles, by success or by failure, when it is no longer the
\* last-issued request leaves value, error and isLoading as they were.
C3_StaleSettleIgnored ==
  [][\A i \in 1..Len(calls) :
       (/\ calls[i].status = "pending"
        /\ calls'[i].status # "pending"
        /\ calls[i].id # latestRequestIdRef) => asyncState' = asyncState]_asyncVars

\* C3 witness: the second call resolved, then the first call rejected late; the
\* fresher success stands.
C3_Witness ==
  /\ isMountedRef /\ Len(calls) = 2 /\ settleOrder = <<2, 1>>
  /\ calls[1].status = "rejected" /\ calls[2].status = "resolved"
  /\ asyncState = AsyncState(Response(2), FALSE, Null)

\* C14: whatever start, pause, reset and ticks do, from a snapshot with a
\* natural elapsed, the elapsed shown and the elapsed queued are natural numbers.
C14_ElapsedIsNatural ==
  /\ timer.elapsed \in Nat
  /\ pending.elapsed \in Nat

\* C14 witness: after a reset and a start, ticks have been rendered.
C14_Witness ==
  /\ mounted /\ Len(requests) = MaxRequests
  /\ requests[1].kind = "reset" /\ requests[MaxRequests].kind = "start"
  /\ lastOp = "render" /\ timer.isRunning /\ timer.elapsed > 0

\* C15: a render with a new initialTimer queues that snapshot as the local state,
\* and the render that follows shows it, elapsed and isRunning, whatever the
\* local state was.
C15_PropChangeResyncs ==
  [][/\ PropChange => pending' = initialTimer'
     /\ (lastOp = "prop" /\ Render) =>
          (timer' = initialTimer /\ pending' = initialTimer)]_timerVars

\* C15 witness: a running timer that had counted past the new snapshot is
\* about to show the stopped snapshot.
C15_Witness ==
  /\ mounted /\ lastOp = "prop"
  /\ timer.isRunning /\ timer.elapsed > initialTimer.elapsed
  /\ ~initialTimer.isRunning /\ pending = initialTimer

\* C12: a call that settles, by success or by failure, after the unmount does
\* not call setState, and value, error and isLoading stay as they were.
C12_SettleAfterUnmountIgnored ==
  [][(~isMountedRef /\ Settle) =>
       (asyncState' = asyncState /\ "settle" \notin lateSetState')]_asyncVars

\* C12 witness: the last-issued call resolved after the unmount; isLoading is
\* still true, as it was at the unmount.
C12_Witness ==
  /\ ~isMountedRef /\ latestRequestIdRef > 0 /\ AllSettled
  /\ calls[LastIssued].status = "resolved"
  /\ asyncState.isLoading /\ asyncState.value = Null
  /\ "settle" \notin lateSetState

\* C13 (the claim as stated): in both implementations execute() called after
\* the unmount invokes no asyncFunction and calls no setState.
C13_ExecuteAfterUnmountInert ==
  [][(~isMountedRef /\ Execute) =>
       (calls' = calls /\ asyncState' = asyncState
          /\ lateSetState' = lateSetState)]_asyncVars

\* C16 (the claim as stated): mounted, once every call has settled and the
\* last-issued one failed, the state is its error, isLoading false and value
\* null, whatever earlier calls produced.
C16_LatestFailureState ==
  (isMountedRef /\ latestRequestIdRef > 0 /\ AllSettled
     /\ calls[LastIssued].status # "resolved") =>
    asyncState = AsyncState(Null, FALSE,
                            CaughtError(LastIssued, calls[LastIssued].status))

\* ----------------------------------------------------- useInterval: claims

\* C17: while mounted with a delay d, one timer of period d is live and
\* savedCallback.current is the callback of the last render; the timer has fired
\* k times when k*d of time has passed since it was set, never before a full
\* period, and is never a period behind.
C17_OncePerPeriod ==
  (intervalMounted /\ delay # NoDelay) =>
    /\ savedCallback = callback
    /\ \E iv \in timers :
         /\ timers = {iv}
         /\ iv.delay = delay
         /\ iv.fires * delay <= now - iv.since
         /\ now - iv.since <= (iv.fires + 1) * delay
         /\ ~TimerDue => iv.fires = (now - iv.since) \div delay

\* C17 witness: a timer of a period longer than one, set after the mount, has
\* fired twice after two periods.
C17_Witness ==
  /\ intervalMounted
  /\ \E iv \in timers :
       /\ iv.delay > 1 /\ iv.since > 0
       /\ iv.fires = 2 /\ now = iv.since + 2 * iv.delay
       /\ lastInvoked = callback

\* C18: with a null delay or after the unmount no timer is live and nothing
\* fires; a render that changes the delay from null to a number sets a timer.
C18_NullOrUnmountedIsSilent ==
  /\ []((delay = NoDelay \/ ~intervalMounted) => timers = {})
  /\ [][/\ Fire => (intervalMounted /\ delay # NoDelay)
        /\ (Rerender /\ delay = NoDelay /\ delay' # NoDelay) =>
             \E iv \in timers' :
               iv.delay = delay' /\ iv.since = now /\ iv.fires = 0]_intervalVars

\* C18 witness: the delay became null after the timer had fired, and time has
\* passed since.
C18_Witness ==
  /\ intervalMounted /\ delay = NoDelay
  /\ lastInvoked # NoCallback /\ timers = {}
  /\ now = MaxTime

\* C19: a render that replaces the callback and keeps the delay leaves the
\* timer as it is (same id, same due time), and every firing invokes the
\* callback of the last render.
C19_CallbackSwapKeepsTimer ==
  [][/\ (Rerender /\ delay' = delay) =>
          (timers' = timers /\ intervalId' = intervalId)
     /\ Fire => lastInvoked' = callback]_intervalVars

\* C19 witness: the timer fired once with the old callback, the callback was
\* replaced, and the timer is the same one, not yet due again.
C19_Witness ==
  /\ intervalMounted
  /\ lastInvoked # NoCallback /\ lastInvoked # callback
  /\ savedCallback = callback
  /\ \E iv \in timers : iv.fires = 1 /\ iv.since < now /\ iv.due > now

\* ------------------------------------------------- useLocalStorage: claims

\* C20 (the claim as stated): after setValue, with a value or an updater, the
\* state of the calling instance is the new value, localStorage holds its
\* serialization under the key, and every instance mounted with that key since
\* shows that value.
C20_SetValuePersists ==
  lastSetValue.called =>
    /\ lastSetValue.instance # NoInstance =>
         hooks[lastSetValue.instance].storedValue = lastSetValue.value
    /\ lastSetValue.key \in DOMAIN localStorage
    /\ localStorage[lastSetValue.key] = JSONStringify(lastSetValue.value)
    /\ \A j \in lastSetValue.readers : hooks[j].storedValue = lastSetValue.value

\* C21: a setValue whose setItem throws leaves localStorage as it was and still
\* makes the state of the calling instance the new value (the exception is
\* caught inside the updater, so the update is not lost).  Stated for every
\* step that ends with such a call as the last one recorded and its caller
\* mounted: the setValue step itself, and the steps of other instances after it,
\* which change neither.
C21_SetItemFailureKeepsState ==
  [][(lastSetValue'.called /\ lastSetValue'.threw
        /\ lastSetValue'.instance # NoInstance) =>
       /\ localStorage' = localStorage
       /\ hooks'[lastSetValue'.instance].storedValue = lastSetValue'.value]_storageVars

\* C21 witness: setItem threw on an empty storage; the state is the new value
\* and the key is still absent.
C21_Witness ==
  /\ lastSetValue.called /\ lastSetValue.threw
  /\ lastSetValue.instance # NoInstance
  /\ lastSetValue.value = NumberValue(1)
  /\ hooks[lastSetValue.instance].storedValue = NumberValue(1)
  /\ hooks[lastSetValue.instance].initialValue = NumberValue(0)
  /\ lastSetValue.key \notin DOMAIN localStorage

\* C22: an instance that mounts (or whose re-sync effect runs for a new key)
\* shows the deserialized item when the key is present and deserialize returns,
\* and its initialValue when the key is absent or deserialize throws.
C22_MountReadsItemOrInitial ==
  [][\A i \in Instances :
       (hooks'[i].mounted /\ (~hooks[i].mounted \/ hooks'[i].key # hooks[i].key)) =>
         LET h == hooks'[i] IN
         IF h.key \in DOMAIN localStorage /\ JSONParse(localStorage[h.key]).ok
         THEN h.storedValue = JSONParse(localStorage[h.key]).value
         ELSE h.storedValue = h.initialValue]_storageVars

\* C22 witness: an instance mounted on a key whose text does not parse shows
\* its initialValue.
C22_Witness ==
  \E i \in Instances :
    /\ hooks[i].mounted /\ ~lastSetValue.called
    /\ hooks[i].key \in DOMAIN localStorage
    /\ localStorage[hooks[i].key] = "invalid JSON"
    /\ hooks[i].initialValue = NumberValue(0)
    /\ hooks[i].storedValue = NumberValue(0)

\* --------------------------------------------- useTimer: claims, continued

\* C23 (the claim as stated): once the hook is unmounted no interval is live,
\* whatever is called before or after the unmount, start(), pause() and reset()
\* on the handles of the last render included.
C23_NoIntervalAfterTeardown ==
  ~mounted => intervals = {}

\* C24 (the claim as stated): the local elapsed (queued updates applied) of a
\* mounted hook does not decrease from a running state to a running state by
\* any step other than reset(), the change of the snapshot included.
C24_ElapsedMonotoneWhileRunning ==
  [][(mounted' /\ pending.isRunning /\ pending'.isRunning /\ ~Reset) =>
       pending'.elapsed >= pending.elapsed]_timerVars

\* C24 (amended): no step of a mounted hook other than reset() and the change of
\* the snapshot decreases the local elapsed; so between two running states
\* elapsed decreases only if a reset() or a snapshot change came between.
C24_ElapsedMonotoneUnlessResetOrSync ==
  [][(mounted' /\ ~Reset /\ ~PropChange) =>
       pending'.elapsed >= pending.elapsed]_timerVars

\* C24 witness: after a pause and a start the running timer shows every tick.
C24_Witness ==
  /\ mounted /\ Len(requests) = MaxRequests
  /\ requests[1].kind = "pause" /\ requests[MaxRequests].kind = "start"
  /\ lastOp = "render" /\ timer.isRunning
  /\ timer.elapsed = MaxElapsed /\ initialTimer.elapsed = 0

\* C25 (the claim as stated): mounted, with every request settled and every
\* update rendered, the stored record's isRunning is the local isRunning,
\* whatever the order in which the requests completed.
C25_PersistedMatchesLocal ==
  (mounted /\ requests # <<>> /\ pending = timer
     /\ \A i \in 1..Len(requests) : requests[i].status # "pending") =>
    PersistedIsRunning = {timer.isRunning}

\* C26 (the claim as stated): pause() on a mounted hook that is already paused
\* (the rendered state and the state with the queued updates applied are both
\* paused, as right after reset() on a paused timer) leaves the local state as
\* it is and no interval live, and sends one request carrying
\* {isRunning: false, elapsed: the current elapsed}.
C26_PauseIdempotent ==
  [][(Pause /\ mounted /\ ~timer.isRunning /\ ~pending.isRunning
        /\ lastOp # "prop") =>
       /\ pending' = pending
       /\ intervals' = {}
       /\ Len(requests') = Len(requests) + 1
       /\ requests'[Len(requests')] = Request("pause", FALSE, pending.elapsed)]_timerVars

\* C29: in a settled state of a mounted hook (every queued update rendered, the
\* effects run) an interval is live exactly when isRunning is true, and it is
\* the one intervalRef holds.
C29_IntervalIffRunning ==
  (mounted /\ pending = timer) =>
    /\ timer.isRunning => (intervalRef # NoInterval /\ intervals = {intervalRef})
    /\ ~timer.isRunning => (intervalRef = NoInterval /\ intervals = {})

\* C29 witness: a snapshot change to a running snapshot, made while a pause()
\* was queued, has been rendered: the timer runs and ticks again.
C29_Witness ==
  /\ mounted /\ pending = timer /\ timer.isRunning
  /\ requests # <<>> /\ LastRequest.kind = "pause"
  /\ lastOp = "render" /\ intervals # {}

\* ------------------------------------------- useAsync: claims, continued

\* C27: mounted, once the last-issued call has resolved the state is its
\* response with error null and isLoading false, whatever error an earlier call
\* had recorded and whatever stale calls settle afterwards.
C27_SuccessClearsError ==
  (isMountedRef /\ latestRequestIdRef > 0
     /\ calls[LastIssued].status = "resolved") =>
    asyncState = AsyncState(Response(LastIssued), FALSE, Null)

\* C27 witness: the first call failed and its error was recorded; the second
\* call resolved and the state shows its response and no error.
C27_Witness ==
  /\ isMountedRef /\ Len(calls) = 2 /\ latestRequestIdRef = 2
  /\ settleOrder = <<1, 2>>
  /\ calls[1].status = "rejected" /\ calls[2].status = "resolved"
  /\ asyncState = AsyncState(Response(2), FALSE, Null)

\* C30: while mounted, isLoading is true exactly while the last-issued call is
\* pending; and, every promise settling, a mounted hook that is loading
\* eventually is not.
C30_LoadingTracksLatest ==
  /\ [](isMountedRef =>
         (asyncState.isLoading <=>
            (latestRequestIdRef > 0 /\ calls[LastIssued].status = "pending")))
  /\ ((isMountedRef /\ asyncState.isLoading) ~>
        (~isMountedRef \/ ~asyncState.isLoading))

\* C30 witness: a stale call has settled while the last-issued one is pending,
\* and isLoading is still true.
C30_Witness ==
  /\ isMountedRef /\ Len(calls) = 2 /\ latestRequestIdRef = 2
  /\ calls[1].status = "resolved" /\ calls[2].status = "pending"
  /\ asyncState.isLoading /\ asyncState.value = Null

\* ------------------------------------------------------ TimerCard: claims

\* C28: a card that is mounted and running and stays so sees an interval of its
\* effect live through a whole period and fire: from every state in which the
\* mounted card renders isRunning = true, a state follows in which an interval
\* callback has run, unless the card was stopped or removed first.
C28_RunningCardFires ==
  (cardMounted /\ card.isRunning) ~>
     (cardFired \/ ~cardMounted \/ ~card.isRunning)

====
